---------------------------- MODULE Spec2Model ----------------------------
(***************************************************************************)
(* Model of salesforce_cli.py: the OAuth client-credentials authenticator, *)
(* the request gateway sf_request, the five record operations and the      *)
(* interactive shell of main().                                            *)
(*                                                                         *)
(* Text typed at a prompt is a sequence of one-character strings, so that  *)
(* str.strip, str.lower, str.isdigit and int() are computed character by   *)
(* character.  The character written "sup2" stands for U+00B2 (superscript *)
(* two), a character for which str.isdigit is true and int() raises.       *)
(***************************************************************************)
EXTENDS Integers, Sequences, FiniteSets, TLC

VARIABLES
    env,            \* SF_INSTANCE_URL, SF_CONSUMER_KEY, SF_CONSUMER_SECRET
    pc,             \* position of main(): start, menu, select_object, dispatch, terminated
    exitCode,       \* process exit status, -1 while the process runs
    endedBy,        \* why the process ended
    tokenPosts,     \* number of POSTs made to /services/oauth2/token
    tokenStatus,    \* status of the token exchange, 0 before it
    choice,         \* main(): the action choice read at the menu
    sobject,        \* main(): the object type select_object returned
    objInput,       \* select_object(): the text last read at its prompt
    op,             \* the operation last dispatched
    inp,            \* what the user typed at the prompts of that operation
    opReqs,         \* the gateway requests that operation issued, in order
    opResp,         \* the HTTP response the platform gave to the last of them
    opResult,       \* what sf_request returned to that operation
    opOut,          \* what the operation reported
    files           \* the files that operation created

vars == <<env, pc, exitCode, endedBy, tokenPosts, tokenStatus, choice, sobject,
          objInput, op, inp, opReqs, opResp, opResult, opOut, files>>

-----------------------------------------------------------------------------
(* Bounds of the model *)

MaxLimitLen == 2    \* longest text typed at the record-limit prompt
MaxRecords == 2     \* most records the platform returns to one query

-----------------------------------------------------------------------------
(* Text *)

Whitespace == {" "}
DecimalChars == {"0", "1", "2", "3", "4", "5", "6", "7", "8", "9"}
IsDigitChars == DecimalChars \cup {"sup2"}

RECURSIVE LStrip(_)
LStrip(s) == IF s # <<>> /\ Head(s) \in Whitespace THEN LStrip(Tail(s)) ELSE s

RECURSIVE RStrip(_)
RStrip(s) ==
    IF s # <<>> /\ s[Len(s)] \in Whitespace
    THEN RStrip(SubSeq(s, 1, Len(s) - 1))
    ELSE s

Strip(s) == RStrip(LStrip(s))

LowerChar(c) ==
    CASE c = "Y" -> "y"
      [] c = "E" -> "e"
      [] c = "S" -> "s"
      [] c = "N" -> "n"
      [] c = "O" -> "o"
      [] OTHER -> c

Lower(s) == [i \in 1..Len(s) |-> LowerChar(s[i])]

IsDigit(s) == s # <<>> /\ \A i \in 1..Len(s) : s[i] \in IsDigitChars

DigitVal(c) ==
    CASE c = "0" -> 0 [] c = "1" -> 1 [] c = "2" -> 2 [] c = "3" -> 3
      [] c = "4" -> 4 [] c = "5" -> 5 [] c = "6" -> 6 [] c = "7" -> 7
      [] c = "8" -> 8 [] c = "9" -> 9

IntDigits(s) ==
    LET t == Strip(s)
    IN IF t # <<>> /\ Head(t) \in {"+", "-"} THEN Tail(t) ELSE t

IntParses(s) ==
    LET d == IntDigits(s)
    IN d # <<>> /\ \A i \in 1..Len(d) : d[i] \in DecimalChars

RECURSIVE Horner(_, _)
Horner(d, acc) ==
    IF d = <<>> THEN acc ELSE Horner(Tail(d), 10 * acc + DigitVal(Head(d)))

IntValue(s) ==
    LET t == Strip(s)
        m == Horner(IntDigits(s), 0)
    IN IF Head(t) = "-" THEN 0 - m ELSE m

RECURSIVE Texts(_, _)
Texts(alphabet, n) ==
    IF n = 0
    THEN {<<>>}
    ELSE LET shorter == Texts(alphabet, n - 1)
         IN shorter \cup
            {Append(s, c) : s \in {t \in shorter : Len(t) = n - 1}, c \in alphabet}

-----------------------------------------------------------------------------
(* Static tables of the program *)

SUPPORTED_OBJECTS == <<"Account", "Contact", "Lead", "Opportunity">>

query_field_map(sobj) ==
    CASE sobj = "Account" -> "Id, Name, Industry, Phone, CreatedDate"
      [] sobj = "Contact" -> "Id, FirstName, LastName, Email, Phone, AccountId"
      [] sobj = "Lead" -> "Id, FirstName, LastName, Company, Status, Email"
      [] sobj = "Opportunity" -> "Id, Name, StageName, Amount, CloseDate, AccountId"
      [] OTHER -> "Id, Name"

export_field_map(sobj) ==
    CASE sobj = "Account" -> "Id, Name, Industry, Phone, CreatedDate"
      [] sobj = "Contact" -> "Id, FirstName, LastName, Email, Phone"
      [] sobj = "Lead" -> "Id, FirstName, LastName, Company, Status, Email"
      [] sobj = "Opportunity" -> "Id, Name, StageName, Amount, CloseDate"
      [] OTHER -> "Id, Name"

field_prompts(sobj) ==
    CASE sobj = "Account" -> <<"Name", "Industry", "Phone">>
      [] sobj = "Contact" -> <<"FirstName", "LastName", "Email", "Phone">>
      [] sobj = "Lead" -> <<"FirstName", "LastName", "Company", "Email">>
      [] sobj = "Opportunity" -> <<"Name", "StageName", "CloseDate", "Amount">>
      [] OTHER -> <<>>

field_options(sobj) ==
    CASE sobj = "Account" -> <<"Name", "Industry", "Phone">>
      [] sobj = "Contact" -> <<"FirstName", "LastName", "Email", "Phone">>
      [] sobj = "Lead" -> <<"FirstName", "LastName", "Company", "Status">>
      [] sobj = "Opportunity" -> <<"Name", "StageName", "Amount", "CloseDate">>
      [] OTHER -> <<>>


-----------------------------------------------------------------------------
(* JSON bodies and HTTP responses *)

\* A response body: text that is not JSON, or a JSON scalar, object or array.
\* An object carries the set of its top-level keys and, under "records", a
\* sequence of records; an array carries its elements.
NotJson == [t |-> "notjson", keys |-> {}, items |-> <<>>, records |-> <<>>]
JScalar == [t |-> "scalar", keys |-> {}, items |-> <<>>, records |-> <<>>]
JDict(ks, recs) == [t |-> "dict", keys |-> ks, items |-> <<>>, records |-> recs]
JList(xs) == [t |-> "list", keys |-> {}, items |-> xs, records |-> <<>>]
EmptyDict == JDict({}, <<>>)

\* Python truthiness of a parsed body (the scalar is a non-empty string)
Truthy(v) ==
    CASE v.t = "dict" -> v.keys # {}
      [] v.t = "list" -> v.items # <<>>
      [] OTHER -> TRUE

\* No response: no request was issued (status 0 is no HTTP status)
NoResp == [status |-> 0, body |-> NotJson]

ErrorDict == JDict({"message", "errorCode"}, <<>>)
ErrorDictNoMessage == JDict({"error"}, <<>>)

ErrorBodies ==
    { JList(<<ErrorDict>>), JList(<<ErrorDictNoMessage>>), ErrorDict,
      ErrorDictNoMessage, JList(<<>>), JList(<<JScalar>>), JScalar, NotJson }

ErrorResponses == {[status |-> s, body |-> b] : s \in {400, 503}, b \in ErrorBodies}

\* A record of a query result: an ordered mapping, the metadata key first
Record(id) == << <<"attributes", "meta">>, <<"Id", id>>, <<"Name", "Acme">> >>

RECURSIVE RecordLists(_)
RecordLists(n) ==
    IF n = 0
    THEN {<<>>}
    ELSE LET shorter == RecordLists(n - 1)
         IN shorter \cup
            { Append(l, Record(id)) :
                l \in {x \in shorter : Len(x) = n - 1}, id \in {"001", "002"} }

QueryResult(recs) == JDict({"totalSize", "done", "records"}, recs)

Responses(o) ==
    ErrorResponses
      \cup {[status |-> 204, body |-> NotJson]}
      \cup (CASE o \in {"query", "export"} ->
                   {[status |-> 200, body |-> QueryResult(r)] : r \in RecordLists(MaxRecords)}
              [] o = "create" ->
                   {[status |-> 201, body |-> JDict({"id", "success", "errors"}, <<>>)]}
              [] OTHER -> {})

-----------------------------------------------------------------------------
(* Request gateway *)

NotCalled == [kind |-> "not_called", value |-> NotJson, reported |-> FALSE]
Raised == [kind |-> "raised", value |-> NotJson, reported |-> FALSE]
ReturnedNone == [kind |-> "none", value |-> NotJson, reported |-> TRUE]
Returned(v) == [kind |-> "value", value |-> v, reported |-> FALSE]

\* The HTTP calls one invocation of sf_request makes for request req
sf_request_calls_retry(req, status) ==
    IF status >= 400 THEN <<req, req>> ELSE <<req>>

sf_request_calls(req, status) == <<req>>

\* What sf_request does with the response it received
sf_request(resp) ==
    IF resp.status = 204
    THEN Returned(EmptyDict)
    ELSE IF resp.status >= 400
    THEN IF resp.body.t = "notjson"
         THEN Raised                               \* response.json() raises
         ELSE IF resp.body.t = "list" /\ resp.body.items = <<>>
         THEN Raised                               \* error[0] raises IndexError
         ELSE LET error == IF resp.body.t = "list"
                           THEN resp.body.items[1]
                           ELSE resp.body
              IN IF error.t # "dict"
                 THEN Raised                       \* error.get raises AttributeError
                 ELSE ReturnedNone
    ELSE IF resp.body.t = "notjson"
         THEN Raised                               \* response.json() raises
         ELSE Returned(resp.body)

\* `if not result` / `if result` on what sf_request returned
ResultTruthy(res) == res.kind = "value" /\ Truthy(res.value)

\* `result.get("records", [])` on a truthy result; only an object has get
HasGet(res) == res.value.t = "dict"
GetRecords(res) == IF "records" \in res.value.keys THEN res.value.records ELSE <<>>


-----------------------------------------------------------------------------
(* What the user can type *)

MenuInputs ==
    { <<"1">>, <<"2">>, <<"3">>, <<"4">>, <<"5">>, <<"6">>, <<" ", "6", " ">>,
      <<" ", "2">>, <<"7">>, <<"0">>, <<"0", "6">>, <<"x">>, <<>>, <<"1", "2">> }

ObjectInputs ==
    { <<"1">>, <<"2">>, <<"3">>, <<"4">>, <<" ", "3", " ">>, <<"0", "1">>,
      <<"0">>, <<"5">>, <<"1", "2">>, <<"-", "1">>, <<"a">>, <<>>, <<" ">>,
      <<"sup2">>, <<"1", " ", "2">> }

LimitInputs == Texts({"0", "5", "-", " ", "a"}, MaxLimitLen)

IdInputs == { <<>>, <<" ">>, <<"0", "0", "1">>, <<" ", "0", "0", "1", " ">> }

ConfirmInputs ==
    { <<"y", "e", "s">>, <<"Y", "E", "S">>, <<"Y", "e", "s">>,
      <<" ", "y", "e", "S", " ">>, <<"n", "o">>, <<"N", "O">>, <<>>, <<"y">>,
      <<"y", "e", "s", "s">>, <<"y", "e", " ", "s">>, <<"o", "k">> }

FieldInputs == { <<>>, <<" ">>, <<"J">>, <<" ", "J", " ">> }

Range(f) == {f[i] : i \in DOMAIN f}

-----------------------------------------------------------------------------
(* State *)

EnvValues == {"unset", "empty", "set"}     \* None, "", a non-empty string

NoInput == [id |-> <<>>, confirm |-> <<>>, limit |-> <<>>, fields |-> <<>>]
NoOut == [said |-> "nothing", count |-> 0]
Out(s) == [said |-> s, count |-> 0]

Init ==
    /\ env \in [{"SF_INSTANCE_URL", "SF_CONSUMER_KEY", "SF_CONSUMER_SECRET"} -> EnvValues]
    /\ pc = "start"
    /\ exitCode = -1
    /\ endedBy = "running"
    /\ tokenPosts = 0
    /\ tokenStatus = 0
    /\ choice = <<>>
    /\ sobject = "none"
    /\ objInput = <<>>
    /\ op = "none"
    /\ inp = NoInput
    /\ opReqs = <<>>
    /\ opResp = NoResp
    /\ opResult = NotCalled
    /\ opOut = NoOut
    /\ files = <<>>

\* The records of the operation of one loop iteration start empty
ClearOperation ==
    /\ sobject' = "none"
    /\ objInput' = <<>>
    /\ op' = "none"
    /\ inp' = NoInput
    /\ opReqs' = <<>>
    /\ opResp' = NoResp
    /\ opResult' = NotCalled
    /\ opOut' = NoOut
    /\ files' = <<>>

Terminate(code, why) ==
    /\ pc' = "terminated"
    /\ exitCode' = code
    /\ endedBy' = why

-----------------------------------------------------------------------------
(* authenticate() *)

\* all([SF_INSTANCE_URL, SF_CONSUMER_KEY, SF_CONSUMER_SECRET])
env_complete_two(e) ==
    e["SF_INSTANCE_URL"] = "set" /\ e["SF_CONSUMER_KEY"] = "set"

env_complete(e) == \A k \in DOMAIN e : e[k] = "set"

TokenGranted == JDict({"access_token", "instance_url", "token_type"}, <<>>)

TokenResponses ==
    { [status |-> 200, body |-> TokenGranted],
      [status |-> 400, body |-> JDict({"error", "error_description"}, <<>>)],
      [status |-> 401, body |-> JDict({"error"}, <<>>)],
      [status |-> 503, body |-> NotJson] }

AuthMissingEnv ==
    /\ pc = "start"
    /\ ~env_complete(env)
    /\ Terminate(1, "missing_env")
    /\ UNCHANGED <<env, tokenPosts, tokenStatus, choice, sobject, objInput, op,
                   inp, opReqs, opResp, opResult, opOut, files>>

\* The token exchange answered with a status other than 200: SystemExit(1),
\* or response.json() raising on a body that is not JSON (exit status 1 too)
AuthFailed ==
    /\ pc = "start"
    /\ env_complete(env)
    /\ \E resp \in TokenResponses :
          /\ resp.status # 200
          /\ tokenPosts' = tokenPosts + 1
          /\ tokenStatus' = resp.status
          /\ IF resp.body.t = "dict"
             THEN Terminate(1, "auth_failed")
             ELSE Terminate(1, "auth_exception")
    /\ UNCHANGED <<env, choice, sobject, objInput, op, inp, opReqs, opResp,
                   opResult, opOut, files>>

AuthOk ==
    /\ pc = "start"
    /\ env_complete(env)
    /\ \E resp \in TokenResponses :
          /\ resp.status = 200
          /\ tokenPosts' = tokenPosts + 1
          /\ tokenStatus' = resp.status
          /\ IF {"access_token", "instance_url"} \subseteq resp.body.keys
             THEN pc' = "menu" /\ UNCHANGED <<exitCode, endedBy>>
             ELSE Terminate(1, "auth_exception")
    /\ UNCHANGED <<env, choice, sobject, objInput, op, inp, opReqs, opResp,
                   opResult, opOut, files>>

-----------------------------------------------------------------------------
(* main(): the action menu *)

ActionChoices == { <<"1">>, <<"2">>, <<"3">>, <<"4">>, <<"5">> }

MenuExit ==
    /\ pc = "menu"
    /\ \E typed \in MenuInputs :
          /\ Strip(typed) = <<"6">>
          /\ choice' = Strip(typed)
    /\ Terminate(0, "exit")
    /\ ClearOperation
    /\ UNCHANGED <<env, tokenPosts, tokenStatus>>

MenuInvalid ==
    /\ pc = "menu"
    /\ \E typed \in MenuInputs :
          /\ Strip(typed) # <<"6">>
          /\ Strip(typed) \notin ActionChoices
          /\ choice' = Strip(typed)
    /\ ClearOperation
    /\ UNCHANGED <<env, pc, exitCode, endedBy, tokenPosts, tokenStatus>>

MenuAction ==
    /\ pc = "menu"
    /\ \E typed \in MenuInputs :
          /\ Strip(typed) # <<"6">>
          /\ Strip(typed) \in ActionChoices
          /\ choice' = Strip(typed)
    /\ pc' = "select_object"
    /\ ClearOperation
    /\ UNCHANGED <<env, exitCode, endedBy, tokenPosts, tokenStatus>>

-----------------------------------------------------------------------------
(* select_object() *)

\* choice.isdigit() and 1 <= int(choice) <= len(SUPPORTED_OBJECTS); int() is
\* evaluated only when isdigit() is true, and raises when the text does not parse
SelectObjectRetry ==
    /\ pc = "select_object"
    /\ \E typed \in ObjectInputs :
          LET c == Strip(typed)
          IN /\ \/ ~IsDigit(c)
                \/ /\ IntParses(c)
                   /\ ~(1 <= IntValue(c) /\ IntValue(c) <= Len(SUPPORTED_OBJECTS))
             /\ objInput' = typed
    /\ UNCHANGED <<env, pc, exitCode, endedBy, tokenPosts, tokenStatus, choice,
                   sobject, op, inp, opReqs, opResp, opResult, opOut, files>>

SelectObjectRaise ==
    /\ pc = "select_object"
    /\ \E typed \in ObjectInputs :
          LET c == Strip(typed)
          IN /\ IsDigit(c)
             /\ ~IntParses(c)
             /\ objInput' = typed
    /\ Terminate(1, "exception")
    /\ UNCHANGED <<env, tokenPosts, tokenStatus, choice, sobject, op, inp,
                   opReqs, opResp, opResult, opOut, files>>

SelectObjectOk ==
    /\ pc = "select_object"
    /\ \E typed \in ObjectInputs :
          LET c == Strip(typed)
          IN /\ IsDigit(c)
             /\ IntParses(c)
             /\ 1 <= IntValue(c) /\ IntValue(c) <= Len(SUPPORTED_OBJECTS)
             /\ objInput' = typed
             /\ sobject' = SUPPORTED_OBJECTS[IntValue(c)]
    /\ pc' = "dispatch"
    /\ UNCHANGED <<env, exitCode, endedBy, tokenPosts, tokenStatus, choice, op,
                   inp, opReqs, opResp, opResult, opOut, files>>


-----------------------------------------------------------------------------
(* Record operations.  Each is a function of what the user types and of the *)
(* response the platform gives to the request, if one is issued; its value   *)
(* records the inputs it read, the requests it issued, what it reported, the *)
(* files it created and whether an exception left it.                        *)

NoBody == [present |-> FALSE, data |-> <<>>]
JsonBody(d) == [present |-> TRUE, data |-> d]

Request(method, path, q, body) ==
    [method |-> method, path |-> path, q |-> q, body |-> body]

Outcome(read, reqs, resp, out, fs, raised) ==
    [read |-> read, reqs |-> reqs, resp |-> resp, out |-> out, files |-> fs,
     raised |-> raised]

NoRequest(read, said) == Outcome(read, <<>>, NoResp, Out(said), <<>>, FALSE)

\* The payload built by the prompt loops of create_record and update_record:
\* value = input(...).strip(); if value: data[field] = value
collect_fields_unstripped(fieldSeq, typed) ==
    [f \in {g \in Range(fieldSeq) : typed[g] # <<>>} |-> typed[f]]

collect_fields(fieldSeq, typed) ==
    [f \in {g \in Range(fieldSeq) : Strip(typed[g]) # <<>>} |-> Strip(typed[f])]

create_record(sobj, typed, resp) ==
    LET read == [NoInput EXCEPT !.fields = typed]
        data == collect_fields(field_prompts(sobj), typed)
        req == Request("POST", <<"/sobjects", sobj>>, <<>>, JsonBody(data))
        result == sf_request(resp)
        calls == sf_request_calls(req, resp.status)
    IN IF DOMAIN data = {}
       THEN NoRequest(read, "aborted")
       ELSE IF result.kind = "raised"
       THEN Outcome(read, calls, resp, Out("nothing"), <<>>, TRUE)
       ELSE IF ResultTruthy(result)
       THEN IF HasGet(result) /\ "id" \in result.value.keys
            THEN Outcome(read, calls, resp, Out("created"), <<>>, FALSE)
            ELSE Outcome(read, calls, resp, Out("created"), <<>>, TRUE)  \* result['id'] raises
       ELSE Outcome(read, calls, resp,
                    Out(IF result.reported THEN "error" ELSE "nothing"), <<>>, FALSE)

update_record(sobj, idTyped, typed, resp) ==
    LET record_id == Strip(idTyped)
        readId == [NoInput EXCEPT !.id = idTyped]
        read == [NoInput EXCEPT !.id = idTyped, !.fields = typed]
        updates == collect_fields(field_options(sobj), typed)
        req == Request("PATCH", <<"/sobjects", sobj, record_id>>, <<>>, JsonBody(updates))
        result == sf_request(resp)
        calls == sf_request_calls(req, resp.status)
    IN IF record_id = <<>>
       THEN NoRequest(readId, "aborted")
       ELSE IF DOMAIN updates = {}
       THEN NoRequest(read, "aborted")
       ELSE IF result.kind = "raised"
       THEN Outcome(read, calls, resp, Out("nothing"), <<>>, TRUE)
       ELSE Outcome(read, calls, resp,
                    Out(IF result.kind = "none" THEN "error" ELSE "updated"), <<>>, FALSE)

\* confirm = input(...).strip().lower(); confirm == "yes"
delete_confirmed_initial(confirmTyped) ==
    LET c == Lower(Strip(confirmTyped)) IN c # <<>> /\ c[1] = "y"

delete_confirmed(confirmTyped) == Lower(Strip(confirmTyped)) = <<"y", "e", "s">>

delete_record(sobj, idTyped, confirmTyped, resp) ==
    LET record_id == Strip(idTyped)
        readId == [NoInput EXCEPT !.id = idTyped]
        read == [NoInput EXCEPT !.id = idTyped, !.confirm = confirmTyped]
        req == Request("DELETE", <<"/sobjects", sobj, record_id>>, <<>>, NoBody)
        result == sf_request(resp)
        calls == sf_request_calls(req, resp.status)
    IN IF record_id = <<>>
       THEN NoRequest(readId, "aborted")
       ELSE IF ~delete_confirmed(confirmTyped)
       THEN NoRequest(read, "cancelled")
       ELSE IF result.kind = "raised"
       THEN Outcome(read, calls, resp, Out("nothing"), <<>>, TRUE)
       ELSE Outcome(read, calls, resp,
                    Out(IF result.kind = "none" THEN "error" ELSE "deleted"), <<>>, FALSE)


\* main(): limit = input(...).strip() or "10"
limit_or_default_one(typed) ==
    IF Strip(typed) = <<>> THEN <<"1">> ELSE Strip(typed)

limit_or_default(typed) ==
    IF Strip(typed) = <<>> THEN <<"1", "0">> ELSE Strip(typed)

\* f"SELECT {fields} FROM {sobject} LIMIT {limit}", as the words of the string
query_soql(sobj, limit) ==
    <<"SELECT", query_field_map(sobj), "FROM", sobj, "LIMIT", ToString(limit)>>

\* main() converts the limit with int(), then calls query_records
query_records(sobj, limitTyped, resp) ==
    LET read == [NoInput EXCEPT !.limit = limitTyped]
        text == limit_or_default(limitTyped)
        req == Request("GET", <<"/query">>, query_soql(sobj, IntValue(text)), NoBody)
        result == sf_request(resp)
        calls == sf_request_calls(req, resp.status)
        records == GetRecords(result)
    IN IF ~IntParses(text)
       THEN Outcome(read, <<>>, NoResp, Out("nothing"), <<>>, TRUE)   \* int() raises
       ELSE IF result.kind = "raised"
       THEN Outcome(read, calls, resp, Out("nothing"), <<>>, TRUE)
       ELSE IF ~ResultTruthy(result)
       THEN Outcome(read, calls, resp,
                    Out(IF result.reported THEN "error" ELSE "nothing"), <<>>, FALSE)
       ELSE IF ~HasGet(result)
       THEN Outcome(read, calls, resp, Out("nothing"), <<>>, TRUE)
       ELSE IF records = <<>>
       THEN Outcome(read, calls, resp, Out("none_found"), <<>>, FALSE)
       ELSE IF "totalSize" \notin result.value.keys
       THEN Outcome(read, calls, resp, Out("nothing"), <<>>, TRUE)
       ELSE Outcome(read, calls, resp,
                    [said |-> "found", count |-> Len(records)], <<>>, FALSE)

\* f"SELECT {fields} FROM {sobject}"
export_soql(sobj) == <<"SELECT", export_field_map(sobj), "FROM", sobj>>

Keys(rec) == [i \in 1..Len(rec) |-> rec[i][1]]

IsField(k) == k # "attributes"

\* fieldnames = [key for key in records[0].keys() if key != "attributes"]
csv_fieldnames_all(rec) == Keys(rec)

csv_fieldnames(rec) == SelectSeq(Keys(rec), IsField)

ValueOf(rec, k) ==
    IF \E i \in 1..Len(rec) : rec[i][1] = k
    THEN rec[CHOOSE i \in 1..Len(rec) : rec[i][1] = k][2]
    ELSE ""

\* DictWriter.writerow: the values in header order, "" for a missing key; a key
\* of the row that the header lacks raises ValueError
csv_row(rec, fieldnames) == [i \in 1..Len(fieldnames) |-> ValueOf(rec, fieldnames[i])]

RowRaises(rec, fieldnames) ==
    \E i \in 1..Len(rec) : IsField(rec[i][1]) /\ rec[i][1] \notin Range(fieldnames)

\* for record in records: writer.writerow(row)
csv_rows(records, fieldnames) ==
    LET bad == {i \in 1..Len(records) : RowRaises(records[i], fieldnames)}
        n == IF bad = {}
             THEN Len(records)
             ELSE (CHOOSE i \in bad : \A j \in bad : i <= j) - 1
    IN [i \in 1..n |-> csv_row(records[i], fieldnames)]

export_to_csv(sobj, resp) ==
    LET req == Request("GET", <<"/query">>, export_soql(sobj), NoBody)
        result == sf_request(resp)
        calls == sf_request_calls(req, resp.status)
        records == GetRecords(result)
        fieldnames == csv_fieldnames(records[1])
        rows == csv_rows(records, fieldnames)
        file == [name |-> <<sobj, "_export_", "timestamp", ".csv">>,
                 header |-> fieldnames, rows |-> rows]
    IN IF result.kind = "raised"
       THEN Outcome(NoInput, calls, resp, Out("nothing"), <<>>, TRUE)
       ELSE IF ~ResultTruthy(result)
       THEN Outcome(NoInput, calls, resp,
                    Out(IF result.reported THEN "error" ELSE "nothing"), <<>>, FALSE)
       ELSE IF ~HasGet(result)
       THEN Outcome(NoInput, calls, resp, Out("nothing"), <<>>, TRUE)
       ELSE IF records = <<>>
       THEN Outcome(NoInput, calls, resp, Out("none_to_export"), <<>>, FALSE)
       ELSE IF Len(rows) < Len(records)
       THEN Outcome(NoInput, calls, resp, Out("nothing"), <<file>>, TRUE)
       ELSE Outcome(NoInput, calls, resp,
                    [said |-> "exported", count |-> Len(records)], <<file>>, FALSE)

-----------------------------------------------------------------------------
(* main(): dispatch of the chosen operation *)

\* The operation ran to its end, or an exception left it and ended the process
Finish(name, o) ==
    /\ op' = name
    /\ inp' = o.read
    /\ opReqs' = o.reqs
    /\ opResp' = o.resp
    /\ opResult' = (IF o.reqs = <<>> THEN NotCalled ELSE sf_request(o.resp))
    /\ opOut' = o.out
    /\ files' = o.files
    /\ objInput' = <<>>
    /\ IF o.raised
       THEN Terminate(1, "exception")
       ELSE pc' = "menu" /\ UNCHANGED <<exitCode, endedBy>>
    /\ UNCHANGED <<env, tokenPosts, tokenStatus, choice, sobject>>

DoQuery ==
    /\ pc = "dispatch"
    /\ choice = <<"1">>
    /\ \E typed \in LimitInputs, resp \in Responses("query") :
          Finish("query", query_records(sobject, typed, resp))

DoCreate ==
    /\ pc = "dispatch"
    /\ choice = <<"2">>
    /\ \E typed \in [Range(field_prompts(sobject)) -> FieldInputs],
          resp \in Responses("create") :
          Finish("create", create_record(sobject, typed, resp))

DoUpdate ==
    /\ pc = "dispatch"
    /\ choice = <<"3">>
    /\ \E idTyped \in IdInputs,
          typed \in [Range(field_options(sobject)) -> FieldInputs],
          resp \in Responses("update") :
          Finish("update", update_record(sobject, idTyped, typed, resp))

DoDelete ==
    /\ pc = "dispatch"
    /\ choice = <<"4">>
    /\ \E idTyped \in IdInputs, confirmTyped \in ConfirmInputs,
          resp \in Responses("delete") :
          Finish("delete", delete_record(sobject, idTyped, confirmTyped, resp))

DoExport ==
    /\ pc = "dispatch"
    /\ choice = <<"5">>
    /\ \E resp \in Responses("export") :
          Finish("export", export_to_csv(sobject, resp))

-----------------------------------------------------------------------------

Next ==
    \/ AuthMissingEnv
    \/ AuthFailed
    \/ AuthOk
    \/ MenuExit
    \/ MenuInvalid
    \/ MenuAction
    \/ SelectObjectRetry
    \/ SelectObjectRaise
    \/ SelectObjectOk
    \/ DoQuery
    \/ DoCreate
    \/ DoUpdate
    \/ DoDelete
    \/ DoExport

Spec == Init /\ [][Next]_vars


-----------------------------------------------------------------------------
(* Properties *)

\* A text that holds nothing but whitespace
Blank(s) == \A i \in 1..Len(s) : s[i] \in Whitespace

\* The text reads "yes" in any mix of upper and lower case, the whitespace
\* around it aside
ReadsYes(s) ==
    LET t == Strip(s)
    IN /\ Len(t) = 3
       /\ t[1] \in {"y", "Y"}
       /\ t[2] \in {"e", "E"}
       /\ t[3] \in {"s", "S"}

Running == pc \in {"menu", "select_object", "dispatch"}

\* C1: delete_record issues the DELETE request only when the record id typed
\* is not blank and the confirmation typed reads "yes" in any letter case; for
\* a blank id and for every other confirmation no request is issued, no file
\* is written, and the operation reports that it aborted or was cancelled and
\* returns to the menu.
C1_DeleteOnlyWhenConfirmed ==
    op = "delete" =>
        IF ~Blank(inp.id) /\ ReadsYes(inp.confirm)
        THEN /\ Len(opReqs) = 1
             /\ opReqs[1].method = "DELETE"
             /\ opReqs[1].path = <<"/sobjects", sobject, Strip(inp.id)>>
        ELSE /\ opReqs = <<>>
             /\ opResult = NotCalled
             /\ opOut.said = (IF Blank(inp.id) THEN "aborted" ELSE "cancelled")
             /\ files = <<>>
             /\ pc = "menu"

\* C1 witness: the delete of a record was answered "no": cancelled, no request
C1_Witness ==
    /\ op = "delete"
    /\ inp.id = <<"0", "0", "1">>
    /\ inp.confirm = <<"n", "o">>
    /\ opOut.said = "cancelled"
    /\ opReqs = <<>>

\* C2: the payload create_record POSTs and update_record PATCHes holds exactly
\* the prompted fields whose input was not blank, each with the value typed
\* (as read by the prompt, surrounding whitespace removed), and no field left
\* blank; when every field is blank, or the record id of an update is blank,
\* the operation aborts without a request.
C2_PayloadOmitsBlankFields ==
    op \in {"create", "update"} =>
        LET filled == {f \in DOMAIN inp.fields : ~Blank(inp.fields[f])}
        IN IF filled = {} \/ (op = "update" /\ Blank(inp.id))
           THEN /\ opReqs = <<>>
                /\ opOut.said = "aborted"
                /\ pc = "menu"
           ELSE /\ Len(opReqs) = 1
                /\ opReqs[1].method = (IF op = "create" THEN "POST" ELSE "PATCH")
                /\ opReqs[1].body.present
                /\ DOMAIN opReqs[1].body.data = filled
                /\ \A f \in filled : opReqs[1].body.data[f] = Strip(inp.fields[f])

\* C2 witness: a Contact created with FirstName typed and LastName left blank:
\* the payload holds FirstName alone
C2_Witness ==
    /\ op = "create"
    /\ sobject = "Contact"
    /\ inp.fields["FirstName"] = <<" ", "J", " ">>
    /\ inp.fields["LastName"] = <<>>
    /\ Len(opReqs) = 1
    /\ DOMAIN opReqs[1].body.data = {"FirstName"}
    /\ opReqs[1].body.data["FirstName"] = <<"J">>

\* C3: for every response, sf_request returns without raising: {} for status
\* 204, None after reporting the error for a status >= 400 whatever the shape
\* of the error body, the parsed body otherwise.
C3_GatewayNeverRaises ==
    opReqs # <<>> =>
        /\ opResult.kind # "raised"
        /\ opResp.status = 204 => opResult = Returned(EmptyDict)
        /\ opResp.status >= 400 => opResult = ReturnedNone
        /\ (opResp.status # 204 /\ opResp.status < 400) => opResult = Returned(opResp.body)

\* The field list configured for each object type
ConfiguredFields(sobj) ==
    CASE sobj = "Account" -> "Id, Name, Industry, Phone, CreatedDate"
      [] sobj = "Contact" -> "Id, FirstName, LastName, Email, Phone, AccountId"
      [] sobj = "Lead" -> "Id, FirstName, LastName, Company, Status, Email"
      [] sobj = "Opportunity" -> "Id, Name, StageName, Amount, CloseDate, AccountId"

C5_ExportCsv ==
    op = "export" =>
        LET recs == IF opResult.kind = "value" THEN GetRecords(opResult) ELSE <<>>
        IN IF recs = <<>>
           THEN files = <<>> /\ opOut.said # "exported"
           ELSE /\ Len(files) = 1
                /\ files[1].header = SelectSeq(Keys(recs[1]), IsField)
                /\ Len(files[1].rows) = Len(recs)
                /\ \A i \in 1..Len(recs) :
                      /\ Len(files[1].rows[i]) = Len(files[1].header)
                      /\ \A j \in 1..Len(files[1].header) :
                            <<files[1].header[j], files[1].rows[i][j]>> \in Range(recs[i])
                /\ opOut = [said |-> "exported", count |-> Len(recs)]

\* C5 witness: two different records exported, in the order returned
C5_Witness ==
    /\ op = "export"
    /\ Len(files) = 1
    /\ files[1].header = <<"Id", "Name">>
    /\ files[1].rows = << <<"002", "Acme">>, <<"001", "Acme">> >>
    /\ opOut.count = 2

\* C6: with any of the three environment variables missing the process exits
\* with status 1 and makes no network call; a token exchange answered with a
\* status other than 200 ends the process with status 1 after that one
\* exchange; the shell runs, and data requests are issued, only after exactly
\* one token exchange, answered 200.
C6_AuthenticationGates ==
    /\ tokenPosts <= 1
    /\ (\E k \in DOMAIN env : env[k] # "set") =>
          /\ tokenPosts = 0
          /\ opReqs = <<>>
          /\ pc = "start" \/ (pc = "terminated" /\ exitCode = 1)
    /\ (tokenPosts = 1 /\ tokenStatus # 200) =>
          /\ pc = "terminated"
          /\ exitCode = 1
          /\ opReqs = <<>>
    /\ (Running \/ opReqs # <<>> \/ endedBy \in {"exit", "exception"}) =>
          /\ tokenPosts = 1
          /\ tokenStatus = 200

\* C6 witness: the token exchange was refused and the process ended with 1
C6_Witness ==
    /\ pc = "terminated"
    /\ endedBy = "auth_failed"
    /\ tokenPosts = 1
    /\ tokenStatus = 400
    /\ exitCode = 1

\* C7: once the shell runs, choosing Exit is the only way the process ends:
\* whatever is typed and whatever the gateway answers, the process ends only by
\* the Exit choice, with status 0.
C7_OnlyExitEnds ==
    (pc = "terminated" /\ tokenStatus = 200) => (endedBy = "exit" /\ exitCode = 0)

\* C8: the field list export_to_csv selects for an object type is the field
\* list query_records selects for it: the export's SOQL is the query's SOQL
\* without its LIMIT clause.
C8_ExportSelectsQueryFields ==
    (op = "export" /\ opReqs # <<>>) =>
        opReqs[1].q = SubSeq(query_soql(sobject, 10), 1, 4)

\* The operation that belongs to each action choice
OperationOf(c) ==
    CASE c = <<"1">> -> "query"
      [] c = <<"2">> -> "create"
      [] c = <<"3">> -> "update"
      [] c = <<"4">> -> "delete"
      [] c = <<"5">> -> "export"
      [] OTHER -> "none"

\* C9: a valid action choice is followed by an object selection that prompts
\* again until the text typed denotes 1 to 4, so that the selection never ends
\* the process; only then is the operation of the choice run, on the object
\* type at the index typed; an invalid choice runs no operation and issues no
\* request.
C9_SelectThenDispatch ==
    /\ pc = "select_object" => choice \in ActionChoices /\ op = "none"
    /\ pc = "dispatch" =>
          /\ IntParses(objInput)
          /\ IntValue(objInput) \in 1..4
          /\ sobject = SUPPORTED_OBJECTS[IntValue(objInput)]
          /\ op = "none"
    /\ op # "none" => (op = OperationOf(choice) /\ sobject \in Range(SUPPORTED_OBJECTS))
    /\ (choice \notin ActionChoices) => (op = "none" /\ opReqs = <<>>)
    /\ ~(pc = "terminated" /\ endedBy = "exception" /\ op = "none")

\* C10: an operation issues at most one gateway request and a failed request
\* is not issued again; a request is issued only by an operation dispatched
\* from the menu after an action and an object were chosen, and after it the
\* shell is back at the menu (or the process has ended), where nothing is
\* issued until the next action is chosen.
C10_OneRequestNoRetry ==
    /\ [](Len(opReqs) <= 1)
    /\ [][ /\ (opReqs' # <<>> /\ opReqs' # opReqs) =>
               (pc = "dispatch" /\ opReqs = <<>> /\ pc' \in {"menu", "terminated"})
           /\ pc = "menu" => opReqs' = <<>> ]_vars

\* C10 witness: a request failed with status >= 400 and was issued once
C10_Witness ==
    /\ pc = "menu"
    /\ Len(opReqs) = 1
    /\ opResp.status >= 400
    /\ opOut.said = "error"

=============================================================================
